---- MODULE Spec2Model ----
(***************************************************************************)
(* cpa-tool: the quota monitor (src/monitor.py), its backup store          *)
(* (src/backup.py) and the poll driver (src/main.py).                      *)
(*                                                                         *)
(* Python strings are sequences of one-character strings, so that the      *)
(* regular expressions of _parse_quota_percent and the substring test of   *)
(* _matches_provider_filter are computed, not assumed.                     *)
(***************************************************************************)
EXTENDS Integers, Sequences, FiniteSets, TLC

VARIABLES
    cfg,                \* Config: dry_run, quota_threshold, provider_filter
    stop,               \* main.run: the asyncio.Event set by the signal handler
    pc,                 \* position of the driver / of check_and_act
    _disabled_accounts, \* monitor.py module global
    store,              \* BackupManager: files of the backup directory, name -> bytes
    entries,            \* check_and_act: the snapshot returned by list_auth_files;
                        \* kept between cycles as history, for runDeletes
    active_names,       \* check_and_act: names of the snapshot
    idx,                \* check_and_act: position of the first loop in entries
    cur,                \* the name _disable_account / _try_reenable is working on
    pending,            \* check_and_act: list(_disabled_accounts) of the second loop
    visited,            \* names of pending the second loop has taken
    calls,              \* history: calls issued in the current cycle, in order
    deletedByUs,        \* history: names whose delete succeeded, not restored since
    probe,              \* history: the credential observed across cycles, NoName if
                        \* none is observed
    probeRestored,      \* history: an upload of probe succeeded at some time
    probeDownload,      \* history: the bytes the latest download of probe returned
    probeReplaced,      \* history: the backup the latest save of probe replaced
    parsed,             \* the record given to _parse_quota_percent and its result
    runDeletes          \* history: per name, the delete calls issued and succeeded
                        \* since the snapshot last changed, and whether the latest one
                        \* succeeded

vars == << cfg, stop, pc, _disabled_accounts, store, entries, active_names, idx,
           cur, pending, visited, calls, deletedByUs, probe, probeRestored,
           probeDownload, probeReplaced, parsed, runDeletes >>

(***************************************************************************)
(* Bounds of the model.                                                    *)
(***************************************************************************)
MaxEntries == 2      \* records in one snapshot
MaxRunDeletes == 2   \* the counters of runDeletes saturate here

(***************************************************************************)
(* Strings.                                                                *)
(***************************************************************************)
Digits == {"0", "1", "2", "3", "4", "5", "6", "7", "8", "9"}

DigitVal(c) ==
    CASE c = "0" -> 0 [] c = "1" -> 1 [] c = "2" -> 2 [] c = "3" -> 3
      [] c = "4" -> 4 [] c = "5" -> 5 [] c = "6" -> 6 [] c = "7" -> 7
      [] c = "8" -> 8 [] c = "9" -> 9

Whitespace == {" ", "\t", "\n", "\r"}

\* str.lower() / re.IGNORECASE on one character
LowerChar(c) ==
    CASE c = "A" -> "a" [] c = "B" -> "b" [] c = "C" -> "c" [] c = "D" -> "d"
      [] c = "E" -> "e" [] c = "F" -> "f" [] c = "G" -> "g" [] c = "H" -> "h"
      [] c = "I" -> "i" [] c = "J" -> "j" [] c = "K" -> "k" [] c = "L" -> "l"
      [] c = "M" -> "m" [] c = "N" -> "n" [] c = "O" -> "o" [] c = "P" -> "p"
      [] c = "Q" -> "q" [] c = "R" -> "r" [] c = "S" -> "s" [] c = "T" -> "t"
      [] c = "U" -> "u" [] c = "V" -> "v" [] c = "W" -> "w" [] c = "X" -> "x"
      [] c = "Y" -> "y" [] c = "Z" -> "z" [] OTHER -> c

Lower(s) == [i \in 1..Len(s) |-> LowerChar(s[i])]

\* the character at position i, "" past the end
At(s, i) == IF i >= 1 /\ i <= Len(s) THEN s[i] ELSE ""

\* Python's `sub in s`
Contains(s, sub) ==
    \E i \in 1..(Len(s) + 1) :
        /\ i + Len(sub) - 1 <= Len(s)
        /\ \A k \in 1..Len(sub) : s[i + k - 1] = sub[k]

\* the literal lit (lower case) matches s at i, ignoring case
MatchLit(s, i, lit) ==
    /\ i >= 1
    /\ i + Len(lit) - 1 <= Len(s)
    /\ \A k \in 1..Len(lit) : LowerChar(s[i + k - 1]) = lit[k]

RECURSIVE DigitsEnd(_, _)
\* \d+ from i: the position after the longest run of digits
DigitsEnd(s, i) == IF At(s, i) \in Digits THEN DigitsEnd(s, i + 1) ELSE i

RECURSIVE SkipWs(_, _)
\* \s* from i
SkipWs(s, i) == IF At(s, i) \in Whitespace THEN SkipWs(s, i + 1) ELSE i

\* (\d+(?:\.\d+)?) from i, greedy: the position after the number
NumberEnd(s, i) ==
    LET j == DigitsEnd(s, i)
    IN  IF At(s, j) = "." /\ At(s, j + 1) \in Digits THEN DigitsEnd(s, j + 1) ELSE j

RECURSIVE IntOf(_, _, _)
\* the digits s[i..e-1] read as a decimal integer
IntOf(s, i, e) == IF i >= e THEN 0 ELSE IntOf(s, i, e - 1) * 10 + DigitVal(s[e - 1])

RECURSIVE Pow10(_)
Pow10(n) == IF n = 0 THEN 1 ELSE 10 * Pow10(n - 1)

\* float(m.group(1)) of the number s[i..e-1], as the exact fraction num / den
FloatOf(s, i, e) ==
    LET j == DigitsEnd(s, i)
    IN  IF j = e THEN [num |-> IntOf(s, i, e), den |-> 1]
        ELSE [num |-> IntOf(s, i, j) * Pow10(e - j - 1) + IntOf(s, j + 1, e),
              den |-> Pow10(e - j - 1)]

None == [num |-> -1, den |-> 0]

\* the smallest member of a set of positions
MinOf(S) == CHOOSE i \in S : \A j \in S : i <= j

\* re.search(r"(\d+(?:\.\d+)?)\s*%\s*<lit>", s): positions where it matches
PercentLitStarts(s, lit) ==
    { i \in 1..Len(s) :
        /\ s[i] \in Digits
        /\ LET p == SkipWs(s, NumberEnd(s, i))
           IN  /\ At(s, p) = "%"
               /\ MatchLit(s, SkipWs(s, p + 1), lit) }

\* re.search(r"<lit>\s*:\s*(\d+(?:\.\d+)?)", s): positions of the number
LitColonNumbers(s, lit) ==
    { q \in 1..Len(s) :
        \E i \in 1..Len(s) :
            /\ MatchLit(s, i, lit)
            /\ LET p == SkipWs(s, i + Len(lit))
               IN  /\ At(s, p) = ":"
                   /\ q = SkipWs(s, p + 1)
                   /\ At(s, q) \in Digits }

s_remaining == <<"r", "e", "m", "a", "i", "n", "i", "n", "g">>
s_used == <<"u", "s", "e", "d">>
s_quota_remaining == <<"q", "u", "o", "t", "a", "_">> \o s_remaining
s_exhausted == <<"e", "x", "h", "a", "u", "s", "t", "e", "d">>
s_rate_limited == <<"r", "a", "t", "e", "_", "l", "i", "m", "i", "t", "e", "d">>
s_quota_exceeded == <<"q", "u", "o", "t", "a", "_", "e", "x", "c", "e", "e", "d", "e", "d">>

\* monitor.py _parse_quota_percent: the remaining percentage, or None
_parse_quota_percent(entry) ==
    LET msg == entry.status_message
        m1 == PercentLitStarts(msg, s_remaining)
        m2 == PercentLitStarts(msg, s_used)
        m3 == LitColonNumbers(msg, s_quota_remaining)
        m4 == LitColonNumbers(msg, s_remaining)
        m5 == PercentLitStarts(msg, <<>>)
        at(S) == FloatOf(msg, MinOf(S), NumberEnd(msg, MinOf(S)))
    IN  IF m1 # {} THEN at(m1)
        ELSE IF m2 # {}
            THEN [num |-> 100 * at(m2).den - at(m2).num, den |-> at(m2).den]
        ELSE IF m3 # {} THEN at(m3)
        ELSE IF m4 # {} THEN at(m4)
        ELSE IF m5 # {} THEN at(m5)
        ELSE IF Lower(entry.status) \in {s_exhausted, s_rate_limited, s_quota_exceeded}
            THEN [num |-> 0, den |-> 1]
        ELSE None

\* mutant: the comparison of line 100 is turned around
BelowThreshold_Above(quota, threshold) == quota.num > threshold * quota.den

\* monitor.py line 100: quota < cfg.quota_threshold
BelowThreshold(quota, threshold) == quota.num < threshold * quota.den

\* mutant: the filter lets every record through
_matches_provider_filter_All(entry, filters) == TRUE

\* monitor.py _matches_provider_filter
_matches_provider_filter(entry, filters) ==
    IF filters = <<>> THEN TRUE
    ELSE \E k \in 1..Len(filters) :
            \/ Contains(Lower(entry.name), Lower(filters[k]))
            \/ Contains(Lower(entry.provider), Lower(filters[k]))

(***************************************************************************)
(* Inputs: the records the remote service may return, the bytes a download *)
(* may return, the configurations.                                         *)
(***************************************************************************)
QuotaThreshold == 10

NameA == <<"a">>
NameB == <<"b">>
NoName == <<>>       \* entry.get("name", "") of a record without a name

s_active == <<"a", "c", "t", "i", "v", "e">>
m_high == <<"5", "0", "%", " ">> \o s_remaining    \* "50% remaining"
m_used == <<"9", "5", "%", " ">> \o s_used         \* "95% used"
m_ok == <<"o", "k">>                                \* no quota signal

Entry(n, p, st, msg, dis) ==
    [name |-> n, provider |-> p, status |-> st, status_message |-> msg, disabled |-> dis]

\* "a" exhausted by its status; "a" healthy; "b" exhausted, disabled upstream or
\* not; "b" without a quota signal; a record without a name
EntryPool ==
    { Entry(NameA, <<"x">>, <<"E">> \o Tail(s_exhausted), <<>>, FALSE),
      Entry(NameA, <<"x">>, s_active, m_high, FALSE),
      Entry(NameB, <<"x">>, s_active, m_used, TRUE),
      Entry(NameB, <<"x">>, s_active, m_used, FALSE),
      Entry(NameB, <<"c", "A">>, s_active, m_ok, FALSE),
      Entry(NoName, <<"x">>, s_active, m_used, FALSE) }

Names == { e.name : e \in EntryPool } \ {NoName}

\* An auth file is a file of the remote service's directory: the names of one
\* listing are pairwise different.
Snapshots ==
    { es \in UNION { [1..n -> EntryPool] : n \in 0..MaxEntries } :
        \A i, j \in 1..Len(es) : es[i].name = es[j].name => i = j }

Contents == {"c1", "c2"}
Truncated == "partial"      \* what a write_bytes that failed half way leaves
NoContent == "None"         \* BackupManager.load of a missing file

Configs ==
    [dry_run : BOOLEAN, quota_threshold : {QuotaThreshold},
     provider_filter : {<<>>, << <<"A">> >>}]

(***************************************************************************)
(* backup.py BackupManager: the backup directory as a function from the    *)
(* file names it holds to their bytes.                                     *)
(***************************************************************************)
\* mutant: save returns without writing the file
BackupSave_Dropped(st, name, content) == st

\* mutant: save does not overwrite a file that is already there
BackupSave_KeepsOld(st, name, content) ==
    [n \in DOMAIN st \cup {name} |-> IF n \in DOMAIN st THEN st[n] ELSE content]

BackupSave(st, name, content) ==
    [n \in DOMAIN st \cup {name} |-> IF n = name THEN content ELSE st[n]]

BackupLoad(st, name) == IF name \in DOMAIN st THEN st[name] ELSE NoContent

BackupExists(st, name) == name \in DOMAIN st

\* mutant: remove leaves the file in place
BackupRemove_Kept(st, name) == st

BackupRemove(st, name) == [n \in DOMAIN st \ {name} |-> st[n]]

EmptyStore == [n \in {} |-> NoContent]

(***************************************************************************)
(* The log of the cycle's calls.                                           *)
(***************************************************************************)
Call(op, name, ok, arg) == [op |-> op, name |-> name, ok |-> ok, arg |-> arg]

\* notifier.py Notifier.send: best effort, never raises
NotifierSend(title, name) == Call("notify", name, TRUE, title)

Issued(op, name) == \E i \in 1..Len(calls) : calls[i].op = op /\ calls[i].name = name

Succeeded(op, name) ==
    \E i \in 1..Len(calls) : calls[i].op = op /\ calls[i].name = name /\ calls[i].ok

ZeroCounts == [n \in Names |-> [issued |-> 0, ok |-> 0, lastOk |-> FALSE]]

Sat(k) == IF k < MaxRunDeletes THEN k + 1 ELSE k

Bump(f, n, ok) ==
    [f EXCEPT ![n] = [issued |-> Sat(@.issued),
                      ok |-> IF ok THEN Sat(@.ok) ELSE @.ok,
                      lastOk |-> ok]]

\* _parse_quota_percent has not been called
NotParsed == [entry |-> Entry(NoName, <<>>, <<>>, <<>>, FALSE), done |-> FALSE,
              quota |-> None]

(***************************************************************************)
(* Init: the state run() constructs.                                       *)
(***************************************************************************)
Init ==
    /\ cfg \in Configs
    /\ stop = FALSE
    /\ pc = "loop"
    /\ _disabled_accounts = {}
    /\ store = EmptyStore
    /\ entries = <<>>
    /\ active_names = {}
    /\ idx = 0
    /\ cur = NoName
    /\ pending = {}
    /\ visited = {}
    /\ calls = <<>>
    /\ deletedByUs = {}
    /\ probe = NoName
    /\ probeRestored = FALSE
    /\ probeDownload = NoContent
    /\ probeReplaced = NoContent
    /\ parsed = NotParsed
    /\ runDeletes = ZeroCounts

(***************************************************************************)
(* main.py run: the poll driver.                                           *)
(***************************************************************************)
\* while not stop.is_set(): ... finally: api.close()
RunLoop ==
    /\ pc = "loop"
    /\ pc' = IF stop THEN "closed" ELSE "list"
    /\ UNCHANGED << cfg, stop, _disabled_accounts, store, entries, active_names, idx,
                    cur, pending, visited, calls, deletedByUs, runDeletes, probe,
                    probeRestored, probeDownload, probeReplaced, parsed >>

\* await asyncio.wait_for(stop.wait(), timeout=cfg.poll_interval); the locals of
\* the finished check_and_act are gone
Wait ==
    /\ pc = "wait"
    /\ pc' = "loop"
    /\ active_names' = {}
    /\ idx' = 0
    /\ cur' = NoName
    /\ pending' = {}
    /\ visited' = {}
    /\ calls' = <<>>
    /\ UNCHANGED << cfg, stop, _disabled_accounts, store, entries, deletedByUs,
                    runDeletes, probe, probeRestored, probeDownload, probeReplaced,
                    parsed >>

\* mutant: the signal cancels the driver where it stands
SignalHandler_Cancels ==
    /\ pc # "closed"
    /\ ~stop
    /\ stop' = TRUE
    /\ pc' = "closed"
    /\ UNCHANGED << cfg, _disabled_accounts, store, entries, active_names, idx,
                    cur, pending, visited, calls, deletedByUs, runDeletes, probe,
                    probeRestored, probeDownload, probeReplaced, parsed >>

\* _signal_handler: SIGINT or SIGTERM arrives, at any moment
SignalHandler ==
    /\ pc # "closed"
    /\ ~stop
    /\ stop' = TRUE
    /\ UNCHANGED << cfg, pc, _disabled_accounts, store, entries, active_names, idx,
                    cur, pending, visited, calls, deletedByUs, runDeletes, probe,
                    probeRestored, probeDownload, probeReplaced, parsed >>

(***************************************************************************)
(* monitor.py check_and_act.                                               *)
(***************************************************************************)
\* mutant: the except branch of the fetch does not return, the second loop runs
ListAuthFilesFails_Continues ==
    /\ pc = "list"
    /\ calls' = << Call("list", NoName, FALSE, "") >>
    /\ pending' = _disabled_accounts
    /\ visited' = {}
    /\ pc' = "reenable"
    /\ UNCHANGED << cfg, stop, _disabled_accounts, store, entries, active_names, idx,
                    cur, deletedByUs, runDeletes, probe, probeRestored,
                    probeDownload, probeReplaced, parsed >>

\* api.list_auth_files() raises: the cycle returns
ListAuthFilesFails ==
    /\ pc = "list"
    /\ calls' = << Call("list", NoName, FALSE, "") >>
    /\ pc' = "wait"
    /\ UNCHANGED << cfg, stop, _disabled_accounts, store, entries, active_names, idx,
                    cur, pending, visited, deletedByUs, runDeletes, probe,
                    probeRestored, probeDownload, probeReplaced, parsed >>

\* api.list_auth_files() returns a snapshot
ListAuthFiles ==
    /\ pc = "list"
    /\ \E es \in Snapshots :
        /\ entries' = es
        /\ active_names' = { es[i].name : i \in 1..Len(es) }
        /\ runDeletes' = IF es = entries THEN runDeletes ELSE ZeroCounts
    /\ idx' = 1
    /\ calls' = << Call("list", NoName, TRUE, "") >>
    /\ pc' = "scan"
    /\ UNCHANGED << cfg, stop, _disabled_accounts, store, cur, pending, visited,
                    deletedByUs, probe, probeRestored, probeDownload, probeReplaced,
                    parsed >>

\* line 93: quota = _parse_quota_percent(entry), for the records of the pool
QuotaOf == [e \in EntryPool |-> _parse_quota_percent(e)]

\* mutant: a record without a quota verdict counts as exhausted
ShouldDisable_UnknownIsLow(entry) ==
    /\ entry.name # NoName
    /\ _matches_provider_filter(entry, cfg.provider_filter)
    /\ \/ QuotaOf[entry] = None
       \/ BelowThreshold(QuotaOf[entry], cfg.quota_threshold)

\* lines 86-100: the record reaches _disable_account
ShouldDisable(entry) ==
    /\ entry.name # NoName
    /\ _matches_provider_filter(entry, cfg.provider_filter)
    /\ QuotaOf[entry] # None
    /\ BelowThreshold(QuotaOf[entry], cfg.quota_threshold)

\* mutant: the early return of _disable_account is missing
AlreadyDisabled_Never(name) == FALSE

\* _disable_account line 119: already disabled by us
AlreadyDisabled(name) == name \in _disabled_accounts

\* mutant: the dry-run flag is ignored
IsDryRun_Ignored == FALSE

\* lines 126 and 173: cfg.dry_run
IsDryRun == cfg.dry_run

\* one turn of the first loop, up to the first remote call of _disable_account
ScanEntry ==
    /\ pc = "scan"
    /\ idx <= Len(entries)
    /\ LET entry == entries[idx]
           name == entry.name
       IN  IF ~ShouldDisable(entry) \/ AlreadyDisabled(name)
           THEN /\ idx' = idx + 1
                /\ UNCHANGED << pc, cur, calls >>
           ELSE IF IsDryRun
           THEN /\ calls' = Append(calls, NotifierSend("DRY RUN: Quota Low", name))
                /\ idx' = idx + 1
                /\ UNCHANGED << pc, cur >>
           ELSE /\ pc' = "download"
                /\ cur' = name
                /\ UNCHANGED << idx, calls >>
    /\ UNCHANGED << cfg, stop, _disabled_accounts, store, entries, active_names,
                    pending, visited, deletedByUs, runDeletes, probe, probeRestored,
                    probeDownload, probeReplaced, parsed >>

\* mutant: the except branch of the backup step does not return
BackupFails_Proceeds ==
    /\ pc = "download"
    /\ calls' = Append(calls, Call("download", cur, FALSE, ""))
    /\ pc' = "delete"
    /\ UNCHANGED << cfg, stop, _disabled_accounts, store, entries, active_names, idx,
                    cur, pending, visited, deletedByUs, runDeletes, probe,
                    probeRestored, probeDownload, probeReplaced, parsed >>

\* lines 132-137: download fails, or the download succeeds and save fails
BackupFails ==
    /\ pc = "download"
    /\ \/ /\ calls' = Append(calls, Call("download", cur, FALSE, ""))
          /\ store' = store
          /\ probeDownload' = probeDownload
       \/ \E c \in Contents :
            /\ calls' = calls \o << Call("download", cur, TRUE, c),
                                    Call("save", cur, FALSE, c) >>
            /\ store' \in {store, BackupSave(store, cur, Truncated)}
            /\ probeDownload' = IF cur = probe THEN c ELSE probeDownload
    /\ pc' = "scan"
    /\ idx' = idx + 1
    /\ UNCHANGED << cfg, stop, _disabled_accounts, entries, active_names, cur,
                    pending, visited, deletedByUs, runDeletes, probe, probeRestored,
                    probeReplaced, parsed >>

\* lines 132-134: download and save succeed
BackupSaved ==
    /\ pc = "download"
    /\ \E c \in Contents :
        /\ calls' = calls \o << Call("download", cur, TRUE, c),
                                Call("save", cur, TRUE, c) >>
        /\ store' = BackupSave(store, cur, c)
        /\ probeDownload' = IF cur = probe THEN c ELSE probeDownload
    /\ probeReplaced' = IF cur = probe THEN BackupLoad(store, cur) ELSE probeReplaced
    /\ pc' = "delete"
    /\ UNCHANGED << cfg, stop, _disabled_accounts, entries, active_names, idx, cur,
                    pending, visited, deletedByUs, runDeletes, probe, probeRestored,
                    parsed >>

\* lines 139-142: delete succeeds
DeleteAuthFile ==
    /\ pc = "delete"
    /\ calls' = calls \o << Call("delete", cur, TRUE, ""),
                            NotifierSend("Account Disabled", cur) >>
    /\ _disabled_accounts' = _disabled_accounts \cup {cur}
    /\ deletedByUs' = deletedByUs \cup {cur}
    /\ runDeletes' = Bump(runDeletes, cur, TRUE)
    /\ pc' = "scan"
    /\ idx' = idx + 1
    /\ UNCHANGED << cfg, stop, store, entries, active_names, cur, pending, visited,
                    probe, probeRestored, probeDownload, probeReplaced, parsed >>

\* mutant: the name is recorded before the delete is confirmed
DeleteAuthFileFails_Recorded ==
    /\ pc = "delete"
    /\ calls' = Append(calls, Call("delete", cur, FALSE, ""))
    /\ _disabled_accounts' = _disabled_accounts \cup {cur}
    /\ runDeletes' = Bump(runDeletes, cur, FALSE)
    /\ pc' = "scan"
    /\ idx' = idx + 1
    /\ UNCHANGED << cfg, stop, store, entries, active_names, cur, pending, visited,
                    deletedByUs, probe, probeRestored, probeDownload, probeReplaced,
                    parsed >>

\* mutant: the exception of the delete leaves check_and_act
DeleteAuthFileFails_Aborts ==
    /\ pc = "delete"
    /\ calls' = Append(calls, Call("delete", cur, FALSE, ""))
    /\ runDeletes' = Bump(runDeletes, cur, FALSE)
    /\ pc' = "wait"
    /\ UNCHANGED << cfg, stop, _disabled_accounts, store, entries, active_names, idx,
                    cur, pending, visited, deletedByUs, probe, probeRestored,
                    probeDownload, probeReplaced, parsed >>

\* lines 143-144: delete raises
DeleteAuthFileFails ==
    /\ pc = "delete"
    /\ calls' = Append(calls, Call("delete", cur, FALSE, ""))
    /\ runDeletes' = Bump(runDeletes, cur, FALSE)
    /\ pc' = "scan"
    /\ idx' = idx + 1
    /\ UNCHANGED << cfg, stop, _disabled_accounts, store, entries, active_names, cur,
                    pending, visited, deletedByUs, probe, probeRestored,
                    probeDownload, probeReplaced, parsed >>

\* mutant: the second loop runs over every known credential
ReenableList_AllNames == Names

\* line 104: list(_disabled_accounts), taken when the first loop is over
ReenableList == _disabled_accounts

ScanDone ==
    /\ pc = "scan"
    /\ idx > Len(entries)
    /\ pending' = ReenableList
    /\ visited' = {}
    /\ pc' = "reenable"
    /\ UNCHANGED << cfg, stop, _disabled_accounts, store, entries, active_names, idx,
                    cur, calls, deletedByUs, runDeletes, probe, probeRestored,
                    probeDownload, probeReplaced, parsed >>

\* mutant: the test of line 105 is missing
StillActive_Never(name) == FALSE

\* mutant: the test of line 105 is inverted
StillActive_Inverted(name) == name \notin active_names

\* line 105: the name is in the snapshot, skip it
StillActive(name) == name \in active_names

\* mutant: a name without a backup stays in the set
ReenableNext_KeepsAbandoned ==
    /\ pc = "reenable"
    /\ \E name \in pending \ visited :
        /\ visited' = visited \cup {name}
        /\ IF StillActive(name)
           THEN UNCHANGED << pc, cur, _disabled_accounts >>
           ELSE IF ~BackupExists(store, name)
           THEN UNCHANGED << pc, cur, _disabled_accounts >>
           ELSE IF IsDryRun
           THEN UNCHANGED << pc, cur, _disabled_accounts >>
           ELSE IF BackupLoad(store, name) = NoContent
           THEN /\ _disabled_accounts' = _disabled_accounts \ {name}
                /\ UNCHANGED << pc, cur >>
           ELSE /\ pc' = "upload"
                /\ cur' = name
                /\ UNCHANGED _disabled_accounts
    /\ UNCHANGED << cfg, stop, store, entries, active_names, idx, pending, calls,
                    deletedByUs, runDeletes, probe, probeRestored, probeDownload,
                    probeReplaced, parsed >>

\* one turn of the second loop, up to the remote call of _try_reenable; a Python
\* set is iterated in no particular order
ReenableNext ==
    /\ pc = "reenable"
    /\ \E name \in pending \ visited :
        /\ visited' = visited \cup {name}
        /\ IF StillActive(name)
           THEN UNCHANGED << pc, cur, _disabled_accounts >>
           ELSE IF ~BackupExists(store, name)
           THEN /\ _disabled_accounts' = _disabled_accounts \ {name}
                /\ UNCHANGED << pc, cur >>
           ELSE IF IsDryRun
           THEN UNCHANGED << pc, cur, _disabled_accounts >>
           ELSE IF BackupLoad(store, name) = NoContent
           THEN /\ _disabled_accounts' = _disabled_accounts \ {name}
                /\ UNCHANGED << pc, cur >>
           ELSE /\ pc' = "upload"
                /\ cur' = name
                /\ UNCHANGED _disabled_accounts
    /\ UNCHANGED << cfg, stop, store, entries, active_names, idx, pending, calls,
                    deletedByUs, runDeletes, probe, probeRestored, probeDownload,
                    probeReplaced, parsed >>

\* lines 183-187: upload succeeds
UploadAuthFile ==
    /\ pc = "upload"
    /\ calls' = calls \o << Call("upload", cur, TRUE, BackupLoad(store, cur)),
                            NotifierSend("Account Re-enabled", cur) >>
    /\ _disabled_accounts' = _disabled_accounts \ {cur}
    /\ store' = BackupRemove(store, cur)
    /\ deletedByUs' = deletedByUs \ {cur}
    /\ probeRestored' = (probeRestored \/ cur = probe)
    /\ pc' = "reenable"
    /\ UNCHANGED << cfg, stop, entries, active_names, idx, cur, pending, visited,
                    runDeletes, probe, probeDownload, probeReplaced, parsed >>

\* mutant: the name is discarded before the upload is confirmed
UploadAuthFileFails_Discarded ==
    /\ pc = "upload"
    /\ calls' = Append(calls, Call("upload", cur, FALSE, BackupLoad(store, cur)))
    /\ _disabled_accounts' = _disabled_accounts \ {cur}
    /\ pc' = "reenable"
    /\ UNCHANGED << cfg, stop, store, entries, active_names, idx, cur, pending,
                    visited, deletedByUs, runDeletes, probe, probeRestored,
                    probeDownload, probeReplaced, parsed >>

\* lines 188-189: upload raises
UploadAuthFileFails ==
    /\ pc = "upload"
    /\ calls' = Append(calls, Call("upload", cur, FALSE, BackupLoad(store, cur)))
    /\ pc' = "reenable"
    /\ UNCHANGED << cfg, stop, _disabled_accounts, store, entries, active_names, idx,
                    cur, pending, visited, deletedByUs, runDeletes, probe,
                    probeRestored, probeDownload, probeReplaced, parsed >>

\* the second loop is over: check_and_act returns
CycleDone ==
    /\ pc = "reenable"
    /\ visited = pending
    /\ pc' = "wait"
    /\ UNCHANGED << cfg, stop, _disabled_accounts, store, entries, active_names, idx,
                    cur, pending, visited, calls, deletedByUs, runDeletes, probe,
                    probeRestored, probeDownload, probeReplaced, parsed >>

Next ==
    \/ RunLoop
    \/ Wait
    \/ SignalHandler
    \/ ListAuthFilesFails
    \/ ListAuthFiles
    \/ ScanEntry
    \/ BackupFails
    \/ BackupSaved
    \/ DeleteAuthFile
    \/ DeleteAuthFileFails
    \/ ScanDone
    \/ ReenableNext
    \/ UploadAuthFile
    \/ UploadAuthFileFails
    \/ CycleDone

Spec == Init /\ [][Next]_vars

\* The event loop keeps running the driver: a call returns, raises or times out
\* (api_client.py timeout=30.0), and the wait ends with the poll interval.
FairSpec == Spec /\ WF_vars(Next)

(***************************************************************************)
(* The backup directory is a directory of the host: a file of it can go    *)
(* away without this program (an operator, a cleanup job).                 *)
(***************************************************************************)
\* a backup file disappears; not while an upload is in flight, whose content
\* _try_reenable has already read
BackupLost ==
    /\ pc \notin {"upload", "closed"}
    /\ \E name \in DOMAIN store : store' = BackupRemove(store, name)
    /\ UNCHANGED << cfg, stop, pc, _disabled_accounts, entries, active_names, idx,
                    cur, pending, visited, calls, deletedByUs, runDeletes, probe,
                    probeRestored, probeDownload, probeReplaced, parsed >>

\* _try_reenable lines 165-180 when the file disappears between backup.exists
\* and backup.load: load returns None
ReenableBackupVanished ==
    /\ pc = "reenable"
    /\ \E name \in pending \ visited :
        /\ ~StillActive(name)
        /\ BackupExists(store, name)
        /\ ~IsDryRun
        /\ store' = BackupRemove(store, name)
        /\ visited' = visited \cup {name}
        /\ _disabled_accounts' = _disabled_accounts \ {name}
    /\ UNCHANGED << cfg, stop, pc, entries, active_names, idx, cur, pending, calls,
                    deletedByUs, runDeletes, probe, probeRestored, probeDownload,
                    probeReplaced, parsed >>

NextLoss == Next \/ BackupLost \/ ReenableBackupVanished

LossSpec == Init /\ [][NextLoss]_vars

\* The same program, with one credential observed across cycles.
InitProbe ==
    /\ cfg \in Configs
    /\ stop = FALSE
    /\ pc = "loop"
    /\ _disabled_accounts = {}
    /\ store = EmptyStore
    /\ entries = <<>>
    /\ active_names = {}
    /\ idx = 0
    /\ cur = NoName
    /\ pending = {}
    /\ visited = {}
    /\ calls = <<>>
    /\ deletedByUs = {}
    /\ probe \in Names
    /\ probeRestored = FALSE
    /\ probeDownload = NoContent
    /\ probeReplaced = NoContent
    /\ parsed = NotParsed
    /\ runDeletes = ZeroCounts

ProbeSpec == InitProbe /\ [][Next]_vars

FairProbeSpec == ProbeSpec /\ WF_vars(Next)

(***************************************************************************)
(* Properties.                                                             *)
(***************************************************************************)
ListOk == Len(calls) > 0 /\ calls[1].op = "list" /\ calls[1].ok

\* check_and_act has returned after a snapshot was fetched
CycleEnd == pc = "wait" /\ ListOk

\* C1: a restore (upload_auth_file) is issued for a name only if the name is in
\* the Disabled-by-us Set at the moment of the call, and only for a credential
\* this system deleted and has not restored since.
C1_RestoreOnlyDisabledByUs ==
    /\ pc = "upload" => cur \in _disabled_accounts /\ cur \in deletedByUs
    /\ \A i \in 1..Len(calls) : calls[i].op = "upload" => calls[i].name \in pending

C1_Witness == \E n \in Names : Succeeded("upload", n)

\* C2: no transition fires for a record that is disabled upstream and not in the
\* Disabled-by-us Set: the disable transition (download, save, delete) is never
\* entered for it.
C2_ExternallyDisabledLeftAlone ==
    pc \in {"download", "delete"} => ~entries[idx].disabled

\* C3 as claimed: at a cycle boundary a backup exists if and only if the
\* credential was deleted by this system and not restored since.
C3_BackupIffDeleted ==
    pc \in {"loop", "wait"} =>
        \A n \in Names : BackupExists(store, n) <=> n \in deletedByUs

\* C3 amended: at a cycle boundary every credential deleted by this system and
\* not restored since has a backup; a backup is created only by the backup step of
\* a disable attempt (which may be followed by a delete that fails) and is removed
\* only by a successful restore.
C3_BackupWhileDeleted ==
    /\ [](pc \in {"loop", "wait"} => \A n \in deletedByUs : BackupExists(store, n))
    /\ [][\A n \in Names :
            /\ BackupExists(store', n) /\ ~BackupExists(store, n)
                => pc = "download" /\ cur = n
            /\ BackupExists(store, n) /\ ~BackupExists(store', n)
                => /\ pc = "upload" /\ cur = n
                   /\ calls'[Len(calls') - 1] = Call("upload", n, TRUE, store[n])]_vars

C3_Witness ==
    /\ pc = "wait"
    /\ NameA \in deletedByUs
    /\ BackupExists(store, NameA)
    /\ Succeeded("upload", NameB)

\* C4: every delete_auth_file(name) comes right after a successful download and a
\* successful backup.save of the same name and bytes; after a failed download or
\* save no delete is issued for the name in that cycle, the name is not in the
\* Disabled-by-us Set and no notification is sent for it.
C4_BackupPrecedesDelete ==
    /\ pc = "delete" =>
        /\ Len(calls) >= 2
        /\ calls[Len(calls)].op = "save" /\ calls[Len(calls)].name = cur
        /\ calls[Len(calls)].ok
    /\ \A i \in 1..Len(calls) :
        /\ calls[i].op = "delete" =>
            /\ i > 2
            /\ calls[i - 1] = Call("save", calls[i].name, TRUE, calls[i - 1].arg)
            /\ calls[i - 2] = Call("download", calls[i].name, TRUE, calls[i - 1].arg)
        /\ calls[i].op \in {"download", "save"} /\ ~calls[i].ok =>
            /\ ~Issued("delete", calls[i].name)
            /\ ~(pc = "delete" /\ cur = calls[i].name)
            /\ calls[i].name \notin _disabled_accounts
            /\ ~Issued("notify", calls[i].name)

C4_Witness ==
    /\ pc = "wait"
    /\ \E i \in 1..Len(calls) : calls[i].op \in {"download", "save"} /\ ~calls[i].ok
    /\ \E n \in Names : Succeeded("delete", n)

\* the records of the snapshot that reach _disable_account
Exhausted == { entries[k].name : k \in { j \in 1..Len(entries) : ShouldDisable(entries[j]) } }

\* C5: the Disabled-by-us Set holds exactly the names whose delete succeeded (and
\* that were not restored since); after a failed delete the name is not in the set,
\* no "Account Disabled" notification was sent and the backup saved just before is
\* in place; and in every cycle a credential below threshold that is not in the set
\* goes through the disable transition again: download, then save (which
\* overwrites the old backup), then delete.
C5_SetChangesOnConfirmedDelete ==
    /\ _disabled_accounts = deletedByUs
    /\ \A i \in 1..Len(calls) :
        /\ calls[i].op = "delete" =>
            /\ BackupExists(store, calls[i].name)
            /\ store[calls[i].name] = calls[i - 1].arg
            /\ calls[i].ok <=> calls[i].name \in _disabled_accounts
            /\ calls[i].ok <=>
                 \E j \in 1..Len(calls) :
                    calls[j] = NotifierSend("Account Disabled", calls[i].name)
    /\ CycleEnd /\ ~cfg.dry_run =>
        /\ \A n \in Exhausted : n \in _disabled_accounts \/ Issued("download", n)
        /\ \A i \in 1..Len(calls) :
            /\ calls[i].op = "download" /\ calls[i].ok =>
                calls[i + 1].op = "save" /\ calls[i + 1].name = calls[i].name
            /\ calls[i].op = "save" /\ calls[i].ok =>
                calls[i + 1].op = "delete" /\ calls[i + 1].name = calls[i].name

\* a delete that failed in one cycle was issued again in the next, over the same
\* snapshot, and succeeded there, replacing the backup
C5_Witness ==
    /\ CycleEnd
    /\ runDeletes[NameA].issued = 2
    /\ runDeletes[NameA].ok = 1
    /\ Succeeded("delete", NameA)

\* C6: after a failed upload the name is still in the Disabled-by-us Set, its
\* backup is there with the same bytes and no "Account Re-enabled" notification was
\* sent; after a successful upload the name is out of the set, the backup is gone
\* and the notification was sent; a name leaves the set, and a backup goes away,
\* only through a successful upload.
C6_UploadFailureKeepsState ==
    /\ \A i \in 1..Len(calls) :
        /\ calls[i].op = "upload" /\ ~calls[i].ok =>
            /\ calls[i].name \in _disabled_accounts
            /\ BackupExists(store, calls[i].name)
            /\ store[calls[i].name] = calls[i].arg
            /\ \A j \in 1..Len(calls) :
                calls[j] # NotifierSend("Account Re-enabled", calls[i].name)
        /\ calls[i].op = "upload" /\ calls[i].ok =>
            /\ calls[i].name \notin _disabled_accounts
            /\ ~BackupExists(store, calls[i].name)
            /\ calls[i + 1] = NotifierSend("Account Re-enabled", calls[i].name)
    /\ pc \in {"reenable", "upload", "wait"} =>
        \A n \in pending :
            n \notin _disabled_accounts \/ ~BackupExists(store, n)
                => Succeeded("upload", n)

C6_Witness ==
    /\ pc = "wait"
    /\ \E i \in 1..Len(calls) : calls[i].op = "upload" /\ ~calls[i].ok
    /\ \E i \in 1..Len(calls) : calls[i].op = "upload" /\ calls[i].ok

\* C7: when list_auth_files fails the cycle ends there: the failed fetch is the
\* only call of the cycle, no notification is sent, and the Disabled-by-us Set and
\* the backup store are what they were when the cycle started.
C7_FetchFailureAbortsCycle ==
    /\ [](Len(calls) > 0 /\ ~calls[1].ok => pc = "wait" /\ Len(calls) = 1)
    /\ [][(pc \in {"loop", "list"} /\ pc' # "scan")
            => (/\ _disabled_accounts' = _disabled_accounts
                /\ store' = store
                /\ Len(calls') <= 1
                /\ pc' \in {"loop", "list", "wait", "closed"})]_vars

\* the fetch failed while a restore was due
C7_Witness ==
    /\ pc = "wait"
    /\ calls = << Call("list", NoName, FALSE, "") >>
    /\ _disabled_accounts # {}
    /\ \E n \in _disabled_accounts : BackupExists(store, n)

\* C8 as claimed: across the cycles over an unchanged snapshot in which a
\* credential is exhausted, exactly one delete_auth_file call is issued for it.
C8_ExactlyOneDelete ==
    CycleEnd /\ ~cfg.dry_run => \A n \in Exhausted : runDeletes[n].issued = 1

\* C8 amended: the disable step is a no-op for a name in the Disabled-by-us Set
\* (the transition is never entered for it), and across the cycles over an
\* unchanged snapshot at most one delete call succeeds for a credential and none is
\* issued after the one that succeeded.
C8_DisableIdempotent ==
    /\ pc \in {"download", "delete"} => cur \notin _disabled_accounts
    /\ \A n \in Names :
        /\ runDeletes[n].ok <= 1
        /\ runDeletes[n].ok = 1 => runDeletes[n].lastOk /\ n \in _disabled_accounts

\* the credential is in the set, deleted once over this snapshot, and seen
\* exhausted again
C8_Witness ==
    /\ pc = "scan"
    /\ idx <= Len(entries)
    /\ ShouldDisable(entries[idx])
    /\ entries[idx].name \in _disabled_accounts
    /\ runDeletes[entries[idx].name].ok = 1

\* C9: in dry-run mode no download, save, delete or upload is issued, the
\* Disabled-by-us Set and the backup store stay empty (so no re-enable trigger
\* arises), and every disable trigger gets a notification titled with the dry-run
\* marker, which no other notification carries.
C9_DryRunMutatesNothing ==
    /\ cfg.dry_run =>
        /\ pc \notin {"download", "delete", "upload"}
        /\ \A i \in 1..Len(calls) : calls[i].op \in {"list", "notify"}
        /\ _disabled_accounts = {}
        /\ store = EmptyStore
        /\ ListOk => \A k \in 1..Len(entries) :
                        k < idx /\ ShouldDisable(entries[k]) =>
                            \E i \in 1..Len(calls) :
                                calls[i] = NotifierSend("DRY RUN: Quota Low", entries[k].name)
    /\ \A i \in 1..Len(calls) :
        calls[i].op = "notify" =>
            (calls[i].arg = "DRY RUN: Quota Low" <=> cfg.dry_run)

C9_Witness ==
    /\ cfg.dry_run
    /\ pc = "wait"
    /\ \E i \in 1..Len(calls) : calls[i] = NotifierSend("DRY RUN: Quota Low", NameA)

\* C10 as claimed: in a cycle that is not a dry run and whose fetch succeeded, a
\* restore is attempted for every name that is in the Disabled-by-us Set when the
\* second loop starts and has a backup, whatever the snapshot holds.
C10_RestoreEveryCycle ==
    CycleEnd /\ ~cfg.dry_run =>
        \A n \in pending :
            BackupExists(store, n) \/ Succeeded("upload", n) => Issued("upload", n)

\* C10 amended: ... for every such name that is not a name of the cycle's
\* snapshot; for a name of the snapshot no restore is attempted.
C10_RestoreUnlessInSnapshot ==
    CycleEnd /\ ~cfg.dry_run =>
        \A n \in pending :
            BackupExists(store, n) \/ Succeeded("upload", n) =>
                (Issued("upload", n) <=> n \notin active_names)

C10_Witness ==
    /\ CycleEnd
    /\ ~cfg.dry_run
    /\ \E n \in pending : n \notin active_names /\ Issued("upload", n)
    /\ \E n \in pending : n \in active_names

(***************************************************************************)
(* C11: flapping.                                                          *)
(***************************************************************************)
\* every call of the current cycle succeeded
AllCallsOk == \A i \in 1..Len(calls) : calls[i].ok

\* the record is in scope and its quota is below the threshold
QuotaLow(entry) ==
    LET q == _parse_quota_percent(entry)
    IN  /\ entry.name # NoName
        /\ _matches_provider_filter(entry, cfg.provider_filter)
        /\ q # None
        /\ q.num < cfg.quota_threshold * q.den

\* name n is exhausted wherever the snapshot lists it
StaysExhausted(n) ==
    \A k \in 1..Len(entries) : entries[k].name = n => QuotaLow(entries[k])

\* the delete calls of the current cycle for name n
DeletesOf(n) == { i \in 1..Len(calls) : calls[i].op = "delete" /\ calls[i].name = n }

\* C11 (as stated): when every call succeeds and a credential is exhausted in
\* every snapshot that lists it, the system deletes it only a bounded number of
\* times: from some point on no delete of it happens any more.
C11_FlappingBounded ==
    \A n \in Names :
        [](AllCallsOk /\ StaysExhausted(n)) => <>[](pc = "delete" => cur # n)

\* C11 (amended): in a cycle where every call succeeds, a credential the snapshot
\* lists as exhausted ends the cycle deleted, in the set and backed up, at the
\* price of at most one delete and no upload in that cycle, whether or not it
\* was restored before; nothing bounds the number of such cycles.
C11_RedisabledInOneRoundTrip ==
    (CycleEnd /\ ~cfg.dry_run /\ AllCallsOk) =>
        \A k \in 1..Len(entries) :
            QuotaLow(entries[k]) =>
                LET n == entries[k].name
                IN  /\ n \in _disabled_accounts
                    /\ BackupExists(store, n)
                    /\ Cardinality(DeletesOf(n)) <= 1
                    /\ ~Issued("upload", n)

\* a credential restored in an earlier cycle is deleted again, all calls succeeding
C11_Witness ==
    /\ CycleEnd /\ AllCallsOk
    /\ probe # NoName /\ probeRestored
    /\ Succeeded("delete", probe)
    /\ StaysExhausted(probe)

(***************************************************************************)
(* C12: backup consistency.                                                *)
(***************************************************************************)
\* the second loop is about to take the branch of lines 165-168 or 178-180 for
\* some name: a name of the set, absent from the snapshot, without a backup
AbandonBranchOpen ==
    /\ pc = "reenable"
    /\ \E name \in pending \ visited :
        /\ ~StillActive(name)
        /\ \/ ~BackupExists(store, name)
           \/ BackupLoad(store, name) = NoContent

\* C12: in every state, the positions inside check_and_act included, each name
\* of the Disabled-by-us Set has a backup entry; once a restore of a name has
\* succeeded in the cycle the name has no backup entry and is out of the set;
\* and, the store being written by this program alone, re-enable never meets a
\* name of the set without a backup.
C12_BackupConsistency ==
    /\ \A n \in _disabled_accounts : BackupExists(store, n)
    /\ \A n \in Names :
        Succeeded("upload", n) => ~BackupExists(store, n) /\ n \notin _disabled_accounts
    /\ ~AbandonBranchOpen

\* within one cycle a name was restored while another is in the set, backed up
C12_Witness ==
    /\ pc = "reenable"
    /\ \E n, m \in Names :
        /\ Succeeded("upload", n)
        /\ m \in _disabled_accounts
        /\ BackupExists(store, m)

(***************************************************************************)
(* C13: a name of the set without a backup.                                *)
(***************************************************************************)
\* names deleted by this program, not restored, and no longer in the set
Abandoned == deletedByUs \ _disabled_accounts

\* the second loop takes `name`, which is absent from the snapshot and whose
\* backup is missing before the step or gone after it without an upload
Abandons(name) ==
    /\ pc = "reenable"
    /\ name \in visited' \ visited
    /\ name \notin active_names
    /\ \/ ~BackupExists(store, name)
       \/ ~BackupExists(store', name) /\ pc' = "reenable"

\* C13: when re-enable is evaluated for a name of the set whose backup is
\* missing, the step issues no call, stays in the second loop and takes the name
\* out of the set; a name so abandoned gets no upload, in this cycle or a later
\* one, for as long as it is not disabled again.
C13_AbandonedNotRetried ==
    /\ [][\A name \in Names :
            Abandons(name) =>
                (/\ name \notin _disabled_accounts'
                 /\ pc' = "reenable"
                 /\ calls' = calls)]_vars
    /\ [](\A name \in Abandoned :
            /\ ~Issued("upload", name)
            /\ ~(pc = "upload" /\ cur = name))

\* a cycle ends with a name deleted by this program, out of the set, absent from
\* the snapshot and without a backup: nothing was uploaded for it
C13_Witness ==
    /\ CycleEnd
    /\ \E name \in Abandoned :
        /\ name \notin active_names
        /\ ~BackupExists(store, name)
        /\ ~Issued("upload", name)

(***************************************************************************)
(* C14: the bytes of a restore.                                            *)
(***************************************************************************)
\* the upload calls of the current cycle for name n
UploadsOf(n) == { i \in 1..Len(calls) : calls[i].op = "upload" /\ calls[i].name = n }

\* C14: the content of every upload issued for the observed credential, and the
\* content loaded for an upload in flight, is the bytes its latest download
\* returned, the download of the attempt whose delete succeeded: never the
\* backup an earlier attempt left, never a truncated file, never nothing.
C14_UploadsLatestDownload ==
    probe # NoName =>
        /\ \A i \in UploadsOf(probe) :
            calls[i].arg = probeDownload /\ calls[i].arg \in Contents
        /\ (pc = "upload" /\ cur = probe) =>
            BackupLoad(store, probe) = probeDownload

\* the observed credential was restored with bytes that replaced the complete
\* backup of an earlier attempt, while another credential is backed up with
\* other bytes
C14_Witness ==
    /\ probe # NoName
    /\ \E i \in UploadsOf(probe) :
        /\ calls[i].ok
        /\ probeReplaced \in Contents \ {calls[i].arg}
        /\ \E m \in Names \ {probe} :
            BackupExists(store, m) /\ BackupLoad(store, m) # calls[i].arg

(***************************************************************************)
(* C15: one credential's failures and another credential's outcome.        *)
(***************************************************************************)
\* the calls of the log cs made for name n, as <<op, ok>> pairs
ShapeOf(cs, n) ==
    LET own == SelectSeq(cs, LAMBDA c : c.name = n)
    IN  [i \in 1..Len(own) |-> << own[i].op, own[i].ok >>]

\* the argument of the last call op of the cycle for name n
LastArg(op, n) ==
    LET S == { i \in 1..Len(calls) : calls[i].op = op /\ calls[i].name = n }
    IN  calls[CHOOSE i \in S : \A j \in S : j <= i].arg

\* the step from the current state works on name n
WorksOn(n) ==
    \/ pc \in {"download", "delete", "upload"} /\ cur = n
    \/ pc = "scan" /\ idx <= Len(entries) /\ entries[idx].name = n
    \/ pc = "reenable" /\ n \in visited' \ visited

dl_failed == << <<"download", FALSE>> >>
save_failed == << <<"download", TRUE>>, <<"save", FALSE>> >>
delete_failed == << <<"download", TRUE>>, <<"save", TRUE>>, <<"delete", FALSE>> >>
disabled_ok ==
    << <<"download", TRUE>>, <<"save", TRUE>>, <<"delete", TRUE>>, <<"notify", TRUE>> >>
dry_notice == << <<"notify", TRUE>> >>
upload_failed == << <<"upload", FALSE>> >>
restored_ok == << <<"upload", TRUE>>, <<"notify", TRUE>> >>

\* what the cycle did for name n follows from n's own record and n's own calls
OwnOutcome(n) ==
    LET P == ShapeOf(calls, n)
        low == \E k \in 1..Len(entries) : entries[k].name = n /\ QuotaLow(entries[k])
    IN  IF n \in active_names
        THEN /\ P \in {<<>>, dl_failed, save_failed, delete_failed, disabled_ok, dry_notice}
             /\ P # <<>> => low
             /\ P = dry_notice <=> (low /\ cfg.dry_run)
             /\ P \in {dl_failed, save_failed, delete_failed} => n \notin _disabled_accounts
             /\ P \in {delete_failed, disabled_ok} =>
                    BackupLoad(store, n) = LastArg("download", n)
             /\ P = disabled_ok => n \in _disabled_accounts
             /\ (low /\ P = <<>>) => n \in _disabled_accounts
        ELSE /\ P \in {<<>>, upload_failed, restored_ok}
             /\ P = upload_failed =>
                    n \in _disabled_accounts /\ BackupLoad(store, n) = LastArg("upload", n)
             /\ P = restored_ok => n \notin _disabled_accounts /\ ~BackupExists(store, n)
             /\ P = <<>> => (n \notin _disabled_accounts \/ cfg.dry_run)

\* C15: a step that works on one credential, failing or not, changes neither
\* the set membership nor the backup entry of another and issues no call for it;
\* a cycle that fetched its snapshot ends only when the first loop has run over
\* every record and the second over every name it listed, whatever failed on
\* the way; and what the cycle did for a credential (its calls, its membership,
\* its backup) follows from that credential's own record and own call results.
C15_Independence ==
    /\ [][\A n \in Names :
            (/\ pc \in {"scan", "download", "delete", "reenable", "upload"}
             /\ \/ (n \in _disabled_accounts') # (n \in _disabled_accounts)
                \/ BackupLoad(store', n) # BackupLoad(store, n)
                \/ ShapeOf(calls', n) # ShapeOf(calls, n))
            => WorksOn(n)]_vars
    /\ [](CycleEnd =>
            /\ idx > Len(entries)
            /\ visited = pending
            /\ \A n \in Names : OwnOutcome(n))

\* the record listed first met a failure and the record listed after it was
\* deleted in the same cycle; or a restore failed and another succeeded
C15_Witness ==
    /\ CycleEnd
    /\ \/ /\ Len(entries) = 2
          /\ ShapeOf(calls, entries[1].name) \in {dl_failed, save_failed, delete_failed}
          /\ ShapeOf(calls, entries[2].name) = disabled_ok
       \/ \E n, m \in Names :
            ShapeOf(calls, n) = upload_failed /\ ShapeOf(calls, m) = restored_ok

(***************************************************************************)
(* C16: a record without a quota verdict.                                  *)
(***************************************************************************)
\* the named records of the snapshot for which _parse_quota_percent gives None
UnknownQuota ==
    { k \in 1..Len(entries) :
        entries[k].name # NoName /\ _parse_quota_percent(entries[k]) = None }

\* C16: no download, save, delete or notification is issued in a cycle for a
\* record whose quota is unknown, and the loop turn that meets such a record
\* moves to the next record without a call and without a change of the set or
\* of the backup store.
C16_UnknownQuotaSkipped ==
    /\ [](ListOk =>
            \A k \in UnknownQuota :
                \A op \in {"download", "save", "delete", "notify"} :
                    ~Issued(op, entries[k].name))
    /\ [][(pc = "scan" /\ idx \in UnknownQuota /\ stop' = stop) =>
            (/\ pc' = "scan"
             /\ idx' = idx + 1
             /\ calls' = calls
             /\ _disabled_accounts' = _disabled_accounts
             /\ store' = store)]_vars

\* a cycle ends that met a record in scope without a quota verdict, did nothing
\* for it, and deleted the other record of the snapshot
C16_Witness ==
    /\ CycleEnd
    /\ \E k \in UnknownQuota :
        /\ _matches_provider_filter(entries[k], cfg.provider_filter)
        /\ ShapeOf(calls, entries[k].name) = <<>>
        /\ \E j \in 1..Len(entries) : j # k /\ Succeeded("delete", entries[j].name)

(***************************************************************************)
(* C17: the provider filter.                                               *)
(***************************************************************************)
\* neither the name nor the provider of the record contains a token of the
\* non-empty filter, case ignored
OutOfScope(entry) ==
    /\ cfg.provider_filter # <<>>
    /\ \A t \in 1..Len(cfg.provider_filter) :
        /\ ~Contains(Lower(entry.name), Lower(cfg.provider_filter[t]))
        /\ ~Contains(Lower(entry.provider), Lower(cfg.provider_filter[t]))

\* the named records of the snapshot that are out of scope
Unscoped == { k \in 1..Len(entries) : entries[k].name # NoName /\ OutOfScope(entries[k]) }

\* the quota of the record is known and below the threshold
BelowRaw(entry) ==
    LET q == _parse_quota_percent(entry)
    IN  q # None /\ q.num < cfg.quota_threshold * q.den

\* C17: with an empty filter every named record whose quota is low is handed
\* to the disable step; with a non-empty filter no download, save, delete or
\* upload is issued in a cycle for a record whose name and provider contain
\* none of the tokens, and no step of the cycle puts its name into the set.
C17_FilterScope ==
    /\ [](ListOk =>
            \A k \in Unscoped :
                \A op \in {"download", "save", "delete", "upload"} :
                    ~Issued(op, entries[k].name))
    /\ [][(pc \in {"scan", "download", "delete", "reenable", "upload"}) =>
            \A k \in Unscoped :
                entries[k].name \in _disabled_accounts' =>
                    entries[k].name \in _disabled_accounts]_vars
    /\ []((CycleEnd /\ cfg.provider_filter = <<>> /\ ~cfg.dry_run) =>
            \A k \in 1..Len(entries) :
                (/\ entries[k].name # NoName
                 /\ BelowRaw(entries[k])
                 /\ entries[k].name \notin _disabled_accounts)
                => Issued("download", entries[k].name))

\* a cycle ends with an exhausted record out of scope left alone and the record
\* in scope deleted
C17_Witness ==
    /\ CycleEnd
    /\ \E k \in Unscoped :
        /\ BelowRaw(entries[k])
        /\ ShapeOf(calls, entries[k].name) = <<>>
        /\ entries[k].name \notin _disabled_accounts
        /\ \E j \in 1..Len(entries) : j # k /\ Succeeded("delete", entries[j].name)

(***************************************************************************)
(* C18: the range of _parse_quota_percent.                                 *)
(***************************************************************************)
\* the numbers of the status messages given to the parser
ParseNumbers ==
    { <<"0">>, <<"5">>, <<"1", "0">>, <<"5", "0">>, <<"1", "0", "0">>,
      <<"1", "0", "1">>, <<"1", "5", "0">>, <<"9", "9", "9">>,
      <<"9", "9", ".", "5">>, <<"1", "0", "0", ".", "5">> }

\* the forms of message the regular expressions of lines 26-50 look for, and two
\* messages without a number
ParseMessages ==
    UNION { { n \o <<"%", " ">> \o s_remaining,
              n \o <<"%", " ">> \o s_used,
              s_quota_remaining \o <<":", " ">> \o n,
              s_remaining \o <<":", " ">> \o n,
              n \o <<"%">> } : n \in ParseNumbers }
    \cup { <<>>, m_ok }

ParseInputs ==
    { Entry(NameA, <<"x">>, st, msg, FALSE) :
        st \in {s_active, s_exhausted}, msg \in ParseMessages }

\* a record is handed to _parse_quota_percent
InitParse ==
    /\ cfg \in Configs
    /\ stop = FALSE
    /\ pc = "loop"
    /\ _disabled_accounts = {}
    /\ store = EmptyStore
    /\ entries = <<>>
    /\ active_names = {}
    /\ idx = 0
    /\ cur = NoName
    /\ pending = {}
    /\ visited = {}
    /\ calls = <<>>
    /\ deletedByUs = {}
    /\ probe = NoName
    /\ probeRestored = FALSE
    /\ probeDownload = NoContent
    /\ probeReplaced = NoContent
    /\ parsed \in { [entry |-> e, done |-> FALSE, quota |-> None] : e \in ParseInputs }
    /\ runDeletes = ZeroCounts

\* _parse_quota_percent returns
ParseEntry ==
    /\ ~parsed.done
    /\ parsed' = [parsed EXCEPT !.done = TRUE,
                                !.quota = _parse_quota_percent(parsed.entry)]
    /\ UNCHANGED << cfg, stop, pc, _disabled_accounts, store, entries, active_names,
                    idx, cur, pending, visited, calls, deletedByUs, probe,
                    probeRestored, probeDownload, probeReplaced, runDeletes >>

ParseSpec == InitParse /\ [][ParseEntry]_vars

\* C18 (as stated): _parse_quota_percent returns None or a value of [0, 100].
C18_QuotaInRange ==
    parsed.done =>
        \/ parsed.quota = None
        \/ /\ parsed.quota.den > 0
           /\ 0 <= parsed.quota.num
           /\ parsed.quota.num <= 100 * parsed.quota.den

(***************************************************************************)
(* C19: cancellation.                                                      *)
(***************************************************************************)
\* the positions inside check_and_act
InCycle == {"list", "scan", "download", "delete", "reenable", "upload"}

\* C19: the driver closes only from its loop test, never from inside a cycle or
\* from the wait; a cycle in flight moves only to its own next position or to
\* its return, signal or not; with the signal set no cycle starts; a cycle
\* starts only from the loop test and the loop test is reached only from the
\* wait, so cycles do not overlap; and once the signal is set the cycle in
\* flight returns and the driver closes.
C19_CooperativeCancellation ==
    /\ [][(pc' = "closed" /\ pc # "closed") => (pc = "loop" /\ stop)]_vars
    /\ [][(pc \in InCycle) => (pc' \in InCycle \cup {"wait"})]_vars
    /\ [][(pc' = "list" /\ pc # "list") => (pc = "loop" /\ ~stop)]_vars
    /\ [][(pc' = "loop" /\ pc # "loop") => pc = "wait"]_vars
    /\ ((stop /\ pc \in InCycle) ~> (pc = "wait"))
    /\ (stop ~> (pc = "closed"))

\* the signal is set while a credential is backed up and not yet deleted
C19_Witness ==
    /\ stop
    /\ pc = "delete"
    /\ BackupExists(store, cur)
    /\ cur \notin _disabled_accounts

(***************************************************************************)
(* C20: delete and upload of one credential in one cycle.                  *)
(***************************************************************************)
\* C20: in the log of one cycle no name has both a call of the disable phase
\* (download, save, delete) and an upload; no upload is issued or in flight for
\* a name of the cycle's snapshot; the second loop starts only when the first
\* has run over the whole snapshot, and every call of the disable phase comes
\* before every upload.
C20_NeverBothInOneCycle ==
    /\ \A n \in Names :
        ~(/\ \E op \in {"download", "save", "delete"} : Issued(op, n)
          /\ (Issued("upload", n) \/ (pc = "upload" /\ cur = n)))
    /\ ListOk =>
        \A n \in active_names : ~Issued("upload", n) /\ ~(pc = "upload" /\ cur = n)
    /\ pc \in {"reenable", "upload"} => idx > Len(entries)
    /\ \A i, j \in 1..Len(calls) :
        (calls[i].op = "upload" /\ i < j) => calls[j].op \in {"upload", "notify"}

\* one cycle deleted a credential and restored another
C20_Witness ==
    /\ CycleEnd
    /\ \E n, m \in Names :
        /\ Succeeded("delete", n)
        /\ Succeeded("upload", m)
        /\ n \in _disabled_accounts
        /\ m \notin _disabled_accounts

====
